---- MODULE Spec2Model ----
(***************************************************************************)
(* Model of app.py of the Interactive Temperature Explorer:                *)
(*   - to_time_label and to_long (wide table -> long records), and         *)
(*   - load_csv_clean (encoding fallback) under st.cache_data.             *)
(* Strings on which the code works character by character (column names,  *)
(* identifier cells, date text, numeric text) are sequences of one-char    *)
(* strings.  Temperatures are integers in tenths of a degree.              *)
(***************************************************************************)
EXTENDS Integers, Sequences, FiniteSets, TLC

VARIABLES
    df,       \* the table object the caller passes to to_long
    results,  \* what each to_long(df) call so far returned or raised
    file,     \* the bytes of data.csv
    cache,    \* st.cache_data's entry for load_csv_clean("data.csv", ...)
    last      \* the latest load_csv_clean call: its attempts and its outcome

vars == <<df, results, file, cache, last>>

longVars == <<df, results>>
loadVars == <<file, cache, last>>

-----------------------------------------------------------------------------
(* Bounds *)

MaxRows == 1
MaxReadings == 2
MaxCalls == 2
MaxFileLen == 2

-----------------------------------------------------------------------------
(* Column names and labels *)

Date == "Date"
Station == "Station"
Staion == "Staion"
CommonLocation == "Common Location"
Location == "Location"
TimeCol == "Time"
ValueCol == "Value"
SourceCol == "Source"
TimeLabelCol == "TimeLabel"

\* line 54 and line 55
BMS_COLS == <<"0700_BMS", "1100_BMS", "1400_BMS", "1600_BMS", "1800_BMS", "2100_BMS">>
MANUAL_COLS == <<"Manual07", "Manual11", "Manual14", "Manual16", "Manual18", "Manual21">>

\* the characters of a reading column's name
Chars(name) ==
    CASE name = "0700_BMS" -> <<"0","7","0","0","_","B","M","S">>
      [] name = "1100_BMS" -> <<"1","1","0","0","_","B","M","S">>
      [] name = "1400_BMS" -> <<"1","4","0","0","_","B","M","S">>
      [] name = "1600_BMS" -> <<"1","6","0","0","_","B","M","S">>
      [] name = "1800_BMS" -> <<"1","8","0","0","_","B","M","S">>
      [] name = "2100_BMS" -> <<"2","1","0","0","_","B","M","S">>
      [] name = "Manual07" -> <<"M","a","n","u","a","l","0","7">>
      [] name = "Manual11" -> <<"M","a","n","u","a","l","1","1">>
      [] name = "Manual14" -> <<"M","a","n","u","a","l","1","4">>
      [] name = "Manual16" -> <<"M","a","n","u","a","l","1","6">>
      [] name = "Manual18" -> <<"M","a","n","u","a","l","1","8">>
      [] name = "Manual21" -> <<"M","a","n","u","a","l","2","1">>

\* line 30
TIME_ORDER == << <<"0","7",":","0","0">>, <<"1","1",":","0","0">>, <<"1","4",":","0","0">>,
                 <<"1","6",":","0","0">>, <<"1","8",":","0","0">>, <<"2","1",":","0","0">> >>

required_id_cols == <<Date, Station, CommonLocation, Location>>

Range(s) == {s[i] : i \in 1..Len(s)}

-----------------------------------------------------------------------------
(* Cells.  k: "str" text, "num" number (v in tenths), "nan" missing,       *)
(* "ts" timestamp (v = yyyymmdd), "nat" missing timestamp.                 *)

Str(s) == [k |-> "str", s |-> s, v |-> 0]
Num(n) == [k |-> "num", s |-> <<>>, v |-> n]
NaN == [k |-> "nan", s |-> <<>>, v |-> 0]
Ts(n) == [k |-> "ts", s |-> <<>>, v |-> n]
NaT == [k |-> "nat", s |-> <<>>, v |-> 0]

Digits == {"0","1","2","3","4","5","6","7","8","9"}
IsDigit(c) == c \in Digits

DigitVal(c) == CASE c = "0" -> 0 [] c = "1" -> 1 [] c = "2" -> 2 [] c = "3" -> 3
                 [] c = "4" -> 4 [] c = "5" -> 5 [] c = "6" -> 6 [] c = "7" -> 7
                 [] c = "8" -> 8 [] c = "9" -> 9

RECURSIVE NatOf(_)
NatOf(s) == IF s = <<>> THEN 0 ELSE 10 * NatOf(SubSeq(s, 1, Len(s) - 1)) + DigitVal(s[Len(s)])

AllDigits(s) == s # <<>> /\ \A i \in 1..Len(s) : IsDigit(s[i])

-----------------------------------------------------------------------------
(* to_time_label, app.py lines 31-41 *)

MatchAt2(s, i) == i + 1 <= Len(s) /\ IsDigit(s[i]) /\ IsDigit(s[i+1])
MatchAt4(s, i) == MatchAt2(s, i) /\ MatchAt2(s, i + 2)

\* TIME_PAT.search: leftmost position where either alternative matches
HasMatch(s) == \E i \in 1..Len(s) : MatchAt2(s, i)
FirstMatch(s) == CHOOSE i \in 1..Len(s) : MatchAt2(s, i) /\ \A j \in 1..(i-1) : ~MatchAt2(s, j)

\* mutant of to_time_label: the pattern has lost its two-digit alternative
to_time_label_no_2digit(colname) ==
    IF \E i \in 1..Len(colname) : MatchAt4(colname, i)
    THEN LET i == CHOOSE i \in 1..Len(colname) :
                     MatchAt4(colname, i) /\ \A j \in 1..(i-1) : ~MatchAt4(colname, j)
         IN <<colname[i], colname[i+1], ":", colname[i+2], colname[i+3]>>
    ELSE colname

to_time_label(colname) ==
    IF ~HasMatch(colname) THEN colname
    ELSE LET i == FirstMatch(colname)
         IN IF MatchAt4(colname, i)
            THEN <<colname[i], colname[i+1], ":", colname[i+2], colname[i+3]>>
            ELSE <<colname[i], colname[i+1], ":", "0", "0">>

-----------------------------------------------------------------------------
(* pandas conversions used by to_long *)

Whitespace == {" ", "\t", "\n"}

RECURSIVE lstrip(_)
lstrip(s) == IF s # <<>> /\ Head(s) \in Whitespace THEN lstrip(Tail(s)) ELSE s

RECURSIVE rstrip(_)
rstrip(s) == IF s # <<>> /\ s[Len(s)] \in Whitespace THEN rstrip(SubSeq(s, 1, Len(s) - 1)) ELSE s

\* str.strip()
strip(s) == rstrip(lstrip(s))

\* Series.astype(str): text is kept, a missing value becomes the text "nan"
astype_str(cell) == IF cell.k = "str" THEN cell.s ELSE <<"n","a","n">>

DaysIn(m) == IF m = 2 THEN 29 ELSE IF m \in {4, 6, 9, 11} THEN 30 ELSE 31

\* pd.to_datetime(..., errors="coerce") on one cell; text is read as YYYY-MM-DD
to_datetime(cell) ==
    CASE cell.k = "ts" -> cell
      [] cell.k = "str" ->
           LET s == cell.s
               wellFormed == /\ Len(s) = 10
                             /\ s[5] = "-" /\ s[8] = "-"
                             /\ AllDigits(SubSeq(s, 1, 4))
                             /\ AllDigits(SubSeq(s, 6, 7))
                             /\ AllDigits(SubSeq(s, 9, 10))
           IN IF ~wellFormed THEN NaT
              ELSE LET y == NatOf(SubSeq(s, 1, 4))
                       m == NatOf(SubSeq(s, 6, 7))
                       d == NatOf(SubSeq(s, 9, 10))
                   IN IF m \in 1..12 /\ d \in 1..DaysIn(m) /\ y >= 1
                      THEN Ts(y * 10000 + m * 100 + d)
                      ELSE NaT
      [] OTHER -> NaT

\* position of the decimal point of s, 0 if none
DotAt(s) == IF \E i \in 1..Len(s) : s[i] = "." THEN CHOOSE i \in 1..Len(s) : s[i] = "." ELSE 0

\* pd.to_numeric(..., errors="coerce") on one cell, in tenths; numeric text is
\* digits, optionally followed by a point and one digit
to_numeric(cell) ==
    CASE cell.k = "num" -> cell
      [] cell.k = "str" ->
           LET s == strip(cell.s)
               p == DotAt(s)
           IN IF AllDigits(s) THEN Num(10 * NatOf(s))
              ELSE IF /\ p > 1 /\ p = Len(s) - 1
                      /\ AllDigits(SubSeq(s, 1, p - 1)) /\ IsDigit(s[Len(s)])
                   THEN Num(10 * NatOf(SubSeq(s, 1, p - 1)) + DigitVal(s[Len(s)]))
                   ELSE NaN
      [] OTHER -> NaN

isna(cell) == cell.k \in {"nan", "nat"}

-----------------------------------------------------------------------------
(* to_long, app.py lines 43-75 *)

\* mutant of AliasStep: with both columns present the alias overwrites Station
AliasStep_alias_wins(t) ==
    IF Staion \in t.cols
    THEN [t EXCEPT !.cols = (t.cols \ {Staion}) \cup {Station},
                   !.rows = [i \in 1..Len(t.rows) |->
                               [c \in (t.cols \ {Staion}) \cup {Station} |->
                                  IF c = Station THEN t.rows[i][Staion] ELSE t.rows[i][c]]]]
    ELSE t

\* lines 44-47: the Staion alias
AliasStep(t) ==
    IF Station \notin t.cols /\ Staion \in t.cols
    THEN [t EXCEPT !.cols = (t.cols \ {Staion}) \cup {Station},
                   !.rows = [i \in 1..Len(t.rows) |->
                               [c \in (t.cols \ {Staion}) \cup {Station} |->
                                  IF c = Station THEN t.rows[i][Staion] ELSE t.rows[i][c]]]]
    ELSE IF Station \in t.cols /\ Staion \in t.cols
    THEN [t EXCEPT !.cols = t.cols \ {Staion},
                   !.rows = [i \in 1..Len(t.rows) |->
                               [c \in t.cols \ {Staion} |-> t.rows[i][c]]]]
    ELSE t

\* rename and drop return a new table; otherwise df is still the caller's object
AliasCopies(t) == Staion \in t.cols

\* mutant of Missing: only the first absent column is reported
Missing_first_only(t) ==
    LET m == SelectSeq(required_id_cols, LAMBDA c : c \notin t.cols)
    IN IF m = <<>> THEN m ELSE <<m[1]>>

\* line 49
Missing(t) == SelectSeq(required_id_cols, LAMBDA c : c \notin t.cols)

\* mutant of DateStep: the dtype test of line 52 is gone and only text is parsed
DateStep_no_guard(t) ==
    [t EXCEPT !.dateDtype = "datetime64",
              !.rows = [i \in 1..Len(t.rows) |->
                          [t.rows[i] EXCEPT ![Date] = IF @.k = "str" THEN to_datetime(@) ELSE NaT]]]

\* lines 52-53: df["Date"] = pd.to_datetime(df["Date"], errors="coerce")
DateStep(t) ==
    IF t.dateDtype # "datetime64"
    THEN [t EXCEPT !.dateDtype = "datetime64",
                   !.rows = [i \in 1..Len(t.rows) |->
                               [t.rows[i] EXCEPT ![Date] = to_datetime(@)]]]
    ELSE t

\* lines 54-55
bms_cols(t) == SelectSeq(BMS_COLS, LAMBDA c : c \in t.cols)
manual_cols(t) == SelectSeq(MANUAL_COLS, LAMBDA c : c \in t.cols)

id_vars == <<Date, Station, CommonLocation, Location>>

\* df.melt(id_vars, value_vars, var_name="Time", value_name="Value") and the
\* Source tag (lines 61-62, 65-66): column-major, one record per (column, row)
Melt(t, value_vars, source) ==
    LET n == Len(t.rows)
    IN [k \in 1..(Len(value_vars) * n) |->
          LET var == value_vars[((k - 1) \div n) + 1]
              row == t.rows[((k - 1) % n) + 1]
          IN [c \in Range(id_vars) \cup {TimeCol, ValueCol, SourceCol} |->
                IF c = TimeCol THEN Str(Chars(var))
                ELSE IF c = ValueCol THEN row[var]
                ELSE IF c = SourceCol THEN Str(source)
                ELSE row[c]]]

ManualTag == <<"M","a","n","u","a","l">>
BmsTag == <<"B","M","S">>

\* mutant of Frames: the two Source tags are exchanged
Frames_tags_swapped(t) ==
    (IF manual_cols(t) # <<>> THEN Melt(t, manual_cols(t), BmsTag) ELSE <<>>)
    \o (IF bms_cols(t) # <<>> THEN Melt(t, bms_cols(t), ManualTag) ELSE <<>>)

\* lines 60-68
Frames(t) ==
    (IF manual_cols(t) # <<>> THEN Melt(t, manual_cols(t), ManualTag) ELSE <<>>)
    \o (IF bms_cols(t) # <<>> THEN Melt(t, bms_cols(t), BmsTag) ELSE <<>>)

\* mutant of InRange: the upper limit is 51
InRange_upto_51(v) == v >= 15 * 10 /\ v <= 51 * 10

\* line 71
InRange(v) == v >= 15 * 10 /\ v <= 50 * 10

\* line 73: pd.Categorical(..., categories=TIME_ORDER): other labels become missing
Categorical(label) == IF label \in Range(TIME_ORDER) THEN Str(label) ELSE NaN

\* line 74
NonBlankIds(r) ==
    /\ strip(astype_str(r[Station])) # <<>>
    /\ strip(astype_str(r[Location])) # <<>>

\* lines 69-74
Validate(recs) ==
    LET coerced == [i \in 1..Len(recs) |-> [recs[i] EXCEPT ![ValueCol] = to_numeric(@)]]
        present == SelectSeq(coerced, LAMBDA r : ~isna(r[ValueCol]) /\ ~isna(r[Date]))
        ranged == SelectSeq(present, LAMBDA r : InRange(r[ValueCol].v))
        labelled == [i \in 1..Len(ranged) |->
                       (TimeLabelCol :> Categorical(to_time_label(ranged[i][TimeCol].s)))
                       @@ ranged[i]]
    IN SelectSeq(labelled, NonBlankIds)

OutColumns == Range(id_vars) \cup {TimeCol, ValueCol, SourceCol, TimeLabelCol}

KeyErrorMissing(m) ==
    [status |-> "KeyError", error |-> "missing", missing |-> m, columns |-> {}, records |-> <<>>]
KeyErrorNoReadings ==
    [status |-> "KeyError", error |-> "noreadings", missing |-> <<>>, columns |-> {}, records |-> <<>>]
Returned(recs) ==
    [status |-> "ok", error |-> "none", missing |-> <<>>, columns |-> OutColumns, records |-> recs]

\* to_long(t): .out is what the call returns or raises, .df is the caller's
\* table afterwards (line 53 assigns into it when no copy was made)
to_long(t) ==
    LET a == AliasStep(t)
    IN IF Missing(a) # <<>>
       THEN [out |-> KeyErrorMissing(Missing(a)), df |-> t]
       ELSE LET d == DateStep(a)
                after == IF AliasCopies(t) THEN t ELSE d
            IN IF bms_cols(d) = <<>> /\ manual_cols(d) = <<>>
               THEN [out |-> KeyErrorNoReadings, df |-> after]
               ELSE [out |-> Returned(Validate(Frames(d))), df |-> after]

-----------------------------------------------------------------------------
(* load_csv_clean, app.py lines 11-28.  A file is a sequence of bytes; the   *)
(* table read from it is modelled by its one header cell, a sequence of code *)
(* points.                                                                   *)

\* line 13
encodings_to_try == <<"cp1252", "latin1", "utf-8-sig", "utf-8">>

\* bytes 0x81, 0x8D, 0x8F, 0x90, 0x9D have no character in cp1252
Cp1252Undefined == {129, 141, 143, 144, 157}

\* cp1252 differs from latin1 on 0x80..0x9F; 0x80 is the euro sign
Cp1252Char(b) == IF b = 128 THEN 8364 ELSE b

\* utf-8: a byte below 0x80, or a lead byte 0xC2..0xDF and one continuation byte
RECURSIVE Utf8Valid(_)
Utf8Valid(bytes) ==
    IF bytes = <<>> THEN TRUE
    ELSE IF bytes[1] < 128 THEN Utf8Valid(Tail(bytes))
    ELSE IF bytes[1] \in 194..223 /\ Len(bytes) >= 2 /\ bytes[2] \in 128..191
         THEN Utf8Valid(SubSeq(bytes, 3, Len(bytes)))
    ELSE FALSE

RECURSIVE Utf8Decode(_)
Utf8Decode(bytes) ==
    IF bytes = <<>> THEN <<>>
    ELSE IF bytes[1] < 128 THEN <<bytes[1]>> \o Utf8Decode(Tail(bytes))
    ELSE <<(bytes[1] - 192) * 64 + (bytes[2] - 128)>> \o Utf8Decode(SubSeq(bytes, 3, Len(bytes)))

\* number of leading bytes of the text that decode before the first error
\* (Len + 1 if there is none)
RECURSIVE Utf8FirstBad(_, _)
Utf8FirstBad(bytes, i) ==
    IF i > Len(bytes) THEN i
    ELSE IF bytes[i] < 128 THEN Utf8FirstBad(bytes, i + 1)
    ELSE IF bytes[i] \in 194..223 /\ i + 1 <= Len(bytes) /\ bytes[i+1] \in 128..191
         THEN Utf8FirstBad(bytes, i + 2)
    ELSE i

FirstBad(bytes, enc) ==
    CASE enc = "cp1252" ->
           IF \E i \in 1..Len(bytes) : bytes[i] \in Cp1252Undefined
           THEN CHOOSE i \in 1..Len(bytes) :
                    bytes[i] \in Cp1252Undefined /\ \A j \in 1..(i-1) : bytes[j] \notin Cp1252Undefined
           ELSE Len(bytes) + 1
      [] enc = "latin1" -> Len(bytes) + 1
      [] OTHER -> Utf8FirstBad(bytes, 1)

Decode(bytes, enc) ==
    CASE enc = "cp1252" -> [i \in 1..Len(bytes) |-> Cp1252Char(bytes[i])]
      [] enc = "latin1" -> bytes
      [] OTHER -> Utf8Decode(bytes)

\* cp1252 with encoding_errors="replace": U+FFFD for an undefined byte
DecodeReplace(bytes) ==
    [i \in 1..Len(bytes) |-> IF bytes[i] \in Cp1252Undefined THEN 65533 ELSE Cp1252Char(bytes[i])]

\* lines 25-27: "\xa0" -> " ", then strip
RECURSIVE StripCodes(_)
StripCodes(t) ==
    IF t # <<>> /\ t[1] = 32 THEN StripCodes(Tail(t))
    ELSE IF t # <<>> /\ t[Len(t)] = 32 THEN StripCodes(SubSeq(t, 1, Len(t) - 1))
    ELSE t

Normalise(text) == StripCodes([i \in 1..Len(text) |-> IF text[i] = 160 THEN 32 ELSE text[i]])

\* one pd.read_csv(file_or_path, encoding=enc) that starts at byte offset start:
\* nothing left to read is pandas' EmptyDataError, an undecodable byte a
\* UnicodeDecodeError; both are caught by line 20
ReadCsv(content, start, enc) ==
    LET rest == SubSeq(content, start + 1, Len(content))
    IN IF rest = <<>> THEN [outcome |-> "empty", text |-> <<>>, bad |-> start]
       ELSE IF FirstBad(rest, enc) <= Len(rest)
            THEN [outcome |-> "decode", text |-> <<>>, bad |-> start + FirstBad(rest, enc)]
            ELSE [outcome |-> "ok", text |-> Decode(rest, enc), bad |-> Len(content)]

\* where the reads of one call start.  A path is opened anew by every read_csv.
\* An open handle is read from wherever the previous read left it: a read that
\* succeeds leaves it at the end, one that fails on a byte has consumed at least
\* up to that byte and at most the whole input.
StartOf(mode, pos) == IF mode = "path" THEN 0 ELSE pos

PositionsAfter(content, r) ==
    IF r.outcome = "decode" THEN r.bad..Len(content) ELSE {r.bad}

\* lines 16-21: the runs of the loop from encoding i on, as
\* [attempts, found, text, pos]
RECURSIVE Loop(_, _, _, _)
Loop(content, mode, i, pos) ==
    IF i > Len(encodings_to_try)
    THEN {[attempts |-> <<>>, found |-> FALSE, text |-> <<>>, pos |-> pos]}
    ELSE LET start == StartOf(mode, pos)
             r == ReadCsv(content, start, encodings_to_try[i])
             att == [enc |-> encodings_to_try[i], start |-> start, outcome |-> r.outcome]
         IN IF r.outcome = "ok"
            THEN {[attempts |-> <<att>>, found |-> TRUE, text |-> r.text, pos |-> Len(content)]}
            ELSE UNION {{[l EXCEPT !.attempts = <<att>> \o @] : l \in Loop(content, mode, i + 1, p)}
                        : p \in PositionsAfter(content, r)}

NoCall ==
    [kind |-> "none", hit |-> FALSE, content |-> <<>>, attempts |-> <<>>, fallback |-> FALSE,
     fallbackStart |-> 0, warned |-> FALSE, status |-> "none", table |-> <<>>]

\* the executions of the body of load_csv_clean on content
Body(content, mode) ==
    {IF l.found
     THEN [kind |-> mode, hit |-> FALSE, content |-> content, attempts |-> l.attempts,
           fallback |-> FALSE, fallbackStart |-> 0, warned |-> FALSE,
           status |-> "ok", table |-> Normalise(l.text)]
     ELSE \* lines 22-24
          LET start == StartOf(mode, l.pos)
              rest == SubSeq(content, start + 1, Len(content))
          IN IF rest = <<>>
             THEN [kind |-> mode, hit |-> FALSE, content |-> content, attempts |-> l.attempts,
                   fallback |-> TRUE, fallbackStart |-> start, warned |-> FALSE,
                   status |-> "raised", table |-> <<>>]
             ELSE [kind |-> mode, hit |-> FALSE, content |-> content, attempts |-> l.attempts,
                   fallback |-> TRUE, fallbackStart |-> start, warned |-> TRUE,
                   status |-> "ok", table |-> Normalise(DecodeReplace(rest))]
     : l \in Loop(content, mode, 1, 0)}

\* line 11, st.cache_data: the entry is keyed by the function and the values of
\* its arguments, here the string "data.csv" and parse_dates; a hit returns the
\* stored table and does not run the body
CacheHit == cache # <<>>

FileBytes == {65, 128, 129, 160}

Contents == UNION {[1..n -> FileBytes] : n \in 0..MaxFileLen}

InitLoad ==
    /\ file \in Contents
    /\ cache = <<>>
    /\ last = NoCall
    /\ df = [cols |-> {}, dateDtype |-> "object", rows |-> <<>>]
    /\ results = <<>>

\* lines 78-81: df_raw = load_csv_clean("data.csv", parse_dates=["Date"])
LoadPath ==
    /\ IF CacheHit
       THEN /\ last' = [NoCall EXCEPT !.kind = "path", !.hit = TRUE, !.content = file,
                                      !.status = "ok", !.table = cache[1]]
            /\ UNCHANGED cache
       ELSE \E r \in Body(file, "path") :
               /\ last' = r
               /\ cache' = IF r.status = "ok" THEN <<r.table>> ELSE cache
    /\ UNCHANGED <<file, longVars>>

\* load_csv_clean(f) for f a handle just opened on data.csv in binary mode
LoadHandle ==
    /\ \E r \in Body(file, "handle") : last' = r
    /\ UNCHANGED <<file, cache, longVars>>

\* the environment replaces the content of data.csv
WriteFile ==
    /\ \E c \in Contents : c # file /\ file' = c
    /\ UNCHANGED <<cache, last, longVars>>

NextLoad == LoadPath \/ LoadHandle \/ WriteFile

SpecLoad == InitLoad /\ [][NextLoad]_vars

-----------------------------------------------------------------------------
(* The tables to_long is called on *)

IdColumns == {Date, Station, Staion, CommonLocation, Location}

\* the reading columns of an input table: none, any one of the twelve, or one
\* of each family
ReadingColumnSets ==
    {{}} \cup {{c} : c \in Range(BMS_COLS) \cup Range(MANUAL_COLS)}
         \cup {{MANUAL_COLS[3], BMS_COLS[3]}}

GoodDate == <<"2","0","2","4","-","0","1","-","0","1">>
BadDate == <<"2","0","2","4","-","1","3","-","0","1">>
Blank == <<" ">>
StationA == <<"A">>
StationB == <<"B">>
Platform1 == <<"P","l","a","t","f","o","r","m","1">>
Concourse == <<"C","o","n","c","o","u","r","s","e">>

ValueCells == {Num(5 * 10), Num(15 * 10), Num(265), Num(50 * 10),
               Str(<<"5","1">>), Str(<<"a","b","c">>)}

CellsOf(c, dtype) ==
    CASE c = Date -> IF dtype = "datetime64" THEN {Ts(20240215), NaT}
                     ELSE {Str(GoodDate), Str(BadDate)}
      [] c = Station -> {Str(StationA), Str(Blank)}
      [] c = Staion -> {Str(StationB)}
      [] c = CommonLocation -> {Str(Concourse)}
      [] c = Location -> {Str(Platform1), NaN}
      [] OTHER -> ValueCells

RECURSIVE RowsOver(_, _)
RowsOver(cols, dtype) ==
    IF cols = {} THEN {<<>>}
    ELSE LET c == CHOOSE x \in cols : TRUE
         IN {(c :> v) @@ f : v \in CellsOf(c, dtype), f \in RowsOver(cols \ {c}, dtype)}

DateDtypes(cols) == IF Date \in cols THEN {"object", "datetime64"} ELSE {"object"}

IsTable(t, ids, rd, dt, n) ==
    \E rows \in [1..n -> RowsOver(ids \cup rd, dt)] :
        t = [cols |-> ids \cup rd, dateDtype |-> dt, rows |-> rows]

-----------------------------------------------------------------------------
(* The to_long state machine: the caller holds one table object df and calls *)
(* to_long(df) repeatedly; results lists what each call returned or raised.  *)

InitLong ==
    /\ \E ids \in SUBSET IdColumns, rd \in ReadingColumnSets, n \in 0..MaxRows :
           /\ n * Cardinality(rd) <= MaxReadings
           /\ \E dt \in DateDtypes(ids) : IsTable(df, ids, rd, dt, n)
    /\ results = <<>>
    /\ file = <<>> /\ cache = <<>> /\ last = NoCall

CallToLong ==
    /\ Len(results) < MaxCalls
    /\ results' = Append(results, to_long(df).out)
    /\ df' = to_long(df).df
    /\ UNCHANGED loadVars

NextLong == CallToLong

Spec == InitLong /\ [][NextLong]_vars

-----------------------------------------------------------------------------
(* Properties of to_long, checked under Spec *)

ReadingNames == Range(BMS_COLS) \cup Range(MANUAL_COLS)
ReadingColsOf(t) == t.cols \cap ReadingNames
Rows(t) == 1..Len(t.rows)
OkResults == {k \in 1..Len(results) : results[k].status = "ok"}
RecordsOf(k) == Range(results[k].records)

\* the Station cell a row carries after the alias step, as the caller wrote it
StationCellOf(row) == IF Station \in DOMAIN row THEN row[Station] ELSE row[Staion]

NonBlankText(cell) == cell.k = "str" /\ strip(cell.s) # <<>>

\* a row that no filter other than the range filter removes
CleanRow(row) ==
    /\ to_datetime(row[Date]).k = "ts"
    /\ NonBlankText(StationCellOf(row))
    /\ NonBlankText(row[Location])

\* C1: every record to_long returns has a numeric Value with 15 <= Value <= 50;
\* a reading of exactly 15 or exactly 50 in an otherwise clean row is kept, and
\* readings outside the range or non-numeric ones are absent.
C1_ValuesInRange ==
    \A k \in OkResults :
        /\ \A r \in RecordsOf(k) :
              /\ r[ValueCol].k = "num"
              /\ 150 <= r[ValueCol].v /\ r[ValueCol].v <= 500
        /\ \A i \in Rows(df) : \A c \in ReadingColsOf(df) :
              (df.rows[i][c] \in {Num(150), Num(500)} /\ CleanRow(df.rows[i]))
              => \E r \in RecordsOf(k) : r[TimeCol].s = Chars(c) /\ r[ValueCol] = df.rows[i][c]

\* a row with a reading of 50 and a reading of "51": only the 50 is returned
C1_Witness ==
    \E k \in OkResults :
        /\ Len(results[k].records) = 1
        /\ results[k].records[1][ValueCol] = Num(500)
        /\ \E i \in Rows(df) : \E c \in ReadingColsOf(df) : df.rows[i][c] = Str(<<"5","1">>)

\* the one row of the end-to-end scenario; Date is the text or the timestamp
\* of 2024-01-01
IsEndToEndRow(row) ==
    /\ row[Date] \in {Str(GoodDate), Ts(20240101)}
    /\ row[Station] = Str(StationA)
    /\ row[Location] = Str(Platform1)
    /\ row["1400_BMS"] = Num(265)

IsEndToEndResult(res) ==
    /\ res.status = "ok"
    /\ Len(res.records) = 1
    /\ res.records[1][SourceCol].s = <<"B","M","S">>
    /\ res.records[1][TimeLabelCol] = Str(<<"1","4",":","0","0">>)
    /\ res.records[1][ValueCol] = Num(265)

\* C2 as stated: the one-row table with the columns Date, Station, Location and
\* 1400_BMS=26.5 yields exactly one record, of the automated (BMS) source, with
\* TimeLabel 14:00 and Value 26.5.
C2_AsStated ==
    (/\ df.cols = {Date, Station, Location, "1400_BMS"}
     /\ Len(df.rows) = 1 /\ IsEndToEndRow(df.rows[1]))
    => \A k \in 1..Len(results) : IsEndToEndResult(results[k])

\* C2 amended: the same one-row table that also has the Common Location column
\* yields exactly one record, with Source "BMS", TimeLabel 14:00 and Value 26.5.
C2_EndToEnd ==
    (/\ df.cols = {Date, Station, CommonLocation, Location, "1400_BMS"}
     /\ Len(df.rows) = 1 /\ IsEndToEndRow(df.rows[1]))
    => \A k \in 1..Len(results) : IsEndToEndResult(results[k])

C2_Witness ==
    /\ df.cols = {Date, Station, CommonLocation, Location, "1400_BMS"}
    /\ Len(df.rows) = 1 /\ IsEndToEndRow(df.rows[1])
    /\ results # <<>> /\ IsEndToEndResult(results[1])

\* the identifier columns absent once Staion stands in for a missing Station
AbsentIds ==
    {c \in {Date, CommonLocation, Location} : c \notin df.cols}
    \cup (IF Station \notin df.cols /\ Staion \notin df.cols THEN {Station} ELSE {})

\* C3: to_long fails with the missing-columns error exactly when an identifier
\* column is absent after the alias step; the error names exactly the absent
\* columns, it wins over the no-reading-columns error, and nothing is returned.
C3_MissingColumns ==
    \A k \in 1..Len(results) :
        /\ (results[k].error = "missing") <=> (AbsentIds # {})
        /\ results[k].error = "missing" =>
              /\ results[k].status = "KeyError"
              /\ Range(results[k].missing) = AbsentIds
              /\ Len(results[k].missing) = Cardinality(AbsentIds)
              /\ results[k].records = <<>>
        /\ results[k].error = "noreadings" => (AbsentIds = {} /\ ReadingColsOf(df) = {})

\* a table without Location, without Date and without reading columns
C3_Witness ==
    /\ results # <<>>
    /\ results[1].error = "missing"
    /\ results[1].missing = <<Date, Location>>
    /\ ReadingColsOf(df) = {}

\* the row of df a record comes from
FromRow(r, row) ==
    /\ r[Station] = StationCellOf(row)
    /\ r[Location] = row[Location]
    /\ r[CommonLocation] = row[CommonLocation]
    /\ r[Date] = to_datetime(row[Date])
    /\ \E c \in ReadingColsOf(df) : r[TimeCol].s = Chars(c) /\ r[ValueCol] = to_numeric(row[c])

\* C4: with both Station and Staion present every record carries its row's
\* Station value and no alias value; with only Staion present its values are
\* used as Station; the output never has a Staion column.
C4_AliasPrecedence ==
    \A k \in OkResults :
        /\ Staion \notin results[k].columns
        /\ Station \in results[k].columns
        /\ \A r \in RecordsOf(k) :
              /\ Staion \notin DOMAIN r
              /\ \E i \in Rows(df) : FromRow(r, df.rows[i])
              /\ (Station \in df.cols /\ Staion \in df.cols) =>
                    \A i \in Rows(df) : r[Station] # df.rows[i][Staion]
              /\ (Station \notin df.cols) =>
                    \E i \in Rows(df) : r[Station] = df.rows[i][Staion]

\* both columns present, with different values, and a record returned
C4_Witness ==
    /\ Station \in df.cols /\ Staion \in df.cols
    /\ \E k \in OkResults : \E r \in RecordsOf(k) :
          r[Station] = Str(StationA) /\ \E i \in Rows(df) : df.rows[i][Staion] = Str(StationB)

\* the label to_time_label gives each of the twelve expected names
TwelveNamesLabelled ==
    /\ to_time_label(Chars("1400_BMS")) = <<"1","4",":","0","0">>
    /\ to_time_label(Chars("Manual07")) = <<"0","7",":","0","0">>
    /\ \A i \in 1..Len(TIME_ORDER) :
          /\ to_time_label(Chars(BMS_COLS[i])) = TIME_ORDER[i]
          /\ to_time_label(Chars(MANUAL_COLS[i])) = TIME_ORDER[i]

\* C5: to_time_label maps each of the twelve reading-column names to the label
\* of its hour, and every record's TimeLabel is the one of the six labels that
\* belongs to its reading column, never missing.
C5_TimeLabels ==
    /\ TwelveNamesLabelled
    /\ \A k \in OkResults : \A r \in RecordsOf(k) :
          /\ r[TimeLabelCol].k = "str"
          /\ \E i \in 1..Len(TIME_ORDER) :
                /\ r[TimeLabelCol].s = TIME_ORDER[i]
                /\ r[TimeCol].s \in {Chars(BMS_COLS[i]), Chars(MANUAL_COLS[i])}

C5_Witness ==
    \E k \in OkResults : \E r \in RecordsOf(k) :
        r[TimeCol].s = Chars("Manual07") /\ r[TimeLabelCol] = Str(<<"0","7",":","0","0">>)

\* C6: a second to_long call on the same table object returns what the first
\* returned: the same records in the same order.
C6_Idempotent ==
    \A k \in 1..Len(results) : results[k] = results[1]

\* two calls on a table whose Date column was text (only the conversion of
\* line 53 yields the timestamp of 2024-01-01) and which the first call has
\* converted in place; both calls returned records
C6_Witness ==
    /\ Len(results) >= 2
    /\ results[1].status = "ok" /\ results[1].records # <<>>
    /\ results[2].records # <<>>
    /\ df.dateDtype = "datetime64"
    /\ \E i \in Rows(df) : df.rows[i][Date] = Ts(20240101)

\* C8 as stated: every record has a non-null Date and a Station and a Location
\* that are non-blank text; rows with a blank or missing Station or Location
\* are dropped.
C8_AsStated ==
    \A k \in OkResults : \A r \in RecordsOf(k) :
        /\ ~isna(r[Date])
        /\ NonBlankText(r[Station])
        /\ NonBlankText(r[Location])

-----------------------------------------------------------------------------
(* Properties of load_csv_clean, checked under SpecLoad *)

Ran == last.kind \in {"path", "handle"} /\ ~last.hit
AllFourFailed ==
    /\ Len(last.attempts) = Len(encodings_to_try)
    /\ \A j \in 1..Len(last.attempts) : last.attempts[j].outcome # "ok"

\* C7 as stated: the encodings are tried in the fixed order, the first attempt
\* that succeeds ends the loop, the lossy read and its warning happen exactly
\* when all four attempts failed, and a decode failure never makes the call fail.
C7_AsStated ==
    Ran =>
        /\ Len(last.attempts) <= Len(encodings_to_try)
        /\ \A j \in 1..Len(last.attempts) :
              /\ last.attempts[j].enc = encodings_to_try[j]
              /\ j < Len(last.attempts) => last.attempts[j].outcome # "ok"
        /\ last.fallback <=> AllFourFailed
        /\ last.warned => AllFourFailed
        /\ (AllFourFailed /\ last.status = "ok") => last.warned
        /\ (\E j \in 1..Len(last.attempts) : last.attempts[j].outcome = "decode")
              => last.status = "ok"

\* C9 as stated: a call that hits the cache does not read again, and what a
\* call for data.csv returns derives from the content data.csv has at the call.
C9_AsStated ==
    (last.kind = "path" /\ last.status = "ok") =>
        /\ last.hit => last.attempts = <<>>
        /\ \E r \in Body(last.content, "path") : r.status = "ok" /\ r.table = last.table

\* C10 as stated: given an open handle, every decode attempt and the lossy
\* fallback read start at the beginning of the input.
C10_AsStated ==
    (last.kind = "handle") =>
        /\ \A j \in 1..Len(last.attempts) : last.attempts[j].start = 0
        /\ last.fallback => last.fallbackStart = 0

====
